---- MODULE Spec2Model ----
(***************************************************************************)
(* The natural-language-to-SQL assistant of streamlit_app.py:              *)
(* LocalDatabaseAssistant (schema introspection, query generation, the     *)
(* blocklist validator, process_query) and the two Streamlit handlers      *)
(* that drive it.  Text is modelled as sequences of one-character strings  *)
(* so that strip, the fenced-block extraction and the regular expressions  *)
(* of the validator are computed character by character.                   *)
(***************************************************************************)
EXTENDS Integers, Sequences, FiniteSets, TLC

VARIABLES
    committed,      \* database.db as committed on disk
    view,           \* the database as the assistant's connection sees it
    in_transaction, \* the connection has an implicit transaction open
    legacy_sqlite3, \* the sqlite3 module is one that raises sqlite3.Warning
    assistant,      \* the LocalDatabaseAssistant object (absent before construction)
    is_initialized, \* st.session_state.is_initialized
    snap_schema,    \* the schema the connection showed when schema_info was built
    prev_schema,    \* the schema it showed at the introspection before that
    prev_info,      \* schema_info as it was before the latest introspection
    calls,          \* the process_query invocations of the latest handler run
    shown,          \* what the latest Streamlit handler run rendered
    cand,           \* validator harness: the candidate statement, as tokens
    verdict         \* validator harness: what _validate_query returned for it

vars == <<committed, view, in_transaction, legacy_sqlite3, assistant, is_initialized,
          snap_schema, prev_schema, prev_info, calls, shown, cand, verdict>>

pipeVars == <<committed, view, in_transaction, legacy_sqlite3, assistant, is_initialized,
              snap_schema, prev_schema, prev_info, calls, shown>>

-----------------------------------------------------------------------------
(* Bounds *)

\* longest candidate statement, in tokens, given to the validator harness
MaxToks == 3

\* most rows a table holds when the session starts
MaxRows == 1

-----------------------------------------------------------------------------
(* Characters and the str methods the code uses *)

Lowers == <<"a", "b", "c", "d", "e", "f", "g", "h", "i", "j", "k", "l", "m", "n", "o", "p", "q", "r", "s", "t", "u", "v", "w", "x", "y", "z">>

Uppers == <<"A", "B", "C", "D", "E", "F", "G", "H", "I", "J", "K", "L", "M", "N", "O", "P", "Q", "R", "S", "T", "U", "V", "W", "X", "Y", "Z">>

Digits == {"0", "1", "2", "3", "4", "5", "6", "7", "8", "9"}

Letters == {Lowers[i] : i \in 1..Len(Lowers)} \cup {Uppers[i] : i \in 1..Len(Uppers)}

\* \w of the re module
WordChars == Letters \cup Digits \cup {"_"}

\* \s of the re module, and what str.strip() removes
SpaceChars == {" ", "\n", "\t", "\r"}

IsWordChar(c) == c \in WordChars

IsSpace(c) == c \in SpaceChars

LowerToUpper ==
    [c \in {Lowers[i] : i \in 1..Len(Lowers)} |->
        Uppers[CHOOSE i \in 1..Len(Lowers) : Lowers[i] = c]]

\* one character under str.upper() / the case folding of re.IGNORECASE
ToUpper(c) == IF c \in DOMAIN LowerToUpper THEN LowerToUpper[c] ELSE c

\* str.upper()
Upper(s) == [i \in 1..Len(s) |-> ToUpper(s[i])]

\* str.strip()
Strip(s) ==
    IF \A i \in 1..Len(s) : IsSpace(s[i]) THEN <<>>
    ELSE LET a == CHOOSE i \in 1..Len(s) :
                      ~IsSpace(s[i]) /\ \A k \in 1..(i-1) : IsSpace(s[k])
             b == CHOOSE i \in 1..Len(s) :
                      ~IsSpace(s[i]) /\ \A k \in (i+1)..Len(s) : IsSpace(s[k])
         IN  SubSeq(s, a, b)

\* s[i..] starts with lit
StartsAt(s, i, lit) ==
    /\ i + Len(lit) - 1 <= Len(s)
    /\ \A k \in 1..Len(lit) : s[i + k - 1] = lit[k]

\* lit in s
Contains(s, lit) == \E i \in 1..Len(s) : StartsAt(s, i, lit)

RECURSIVE Flatten(_)
\* "".join(parts)
Flatten(parts) ==
    IF parts = <<>> THEN <<>> ELSE Head(parts) \o Flatten(Tail(parts))

-----------------------------------------------------------------------------
(* _validate_query: the blocklist of regular expressions *)

\* re.search(r";\s*\w", q)
SearchChained(q) ==
    \E i \in 1..Len(q) :
        /\ q[i] = ";"
        /\ \E j \in (i+1)..Len(q) :
              /\ IsWordChar(q[j])
              /\ \A k \in (i+1)..(j-1) : IsSpace(q[k])

\* re.search(re.escape(lit), q): "--" and "/\*"
SearchLiteral(lit, q) == Contains(q, lit)

\* \b at the gap before position p (1..Len(q)+1)
WordBoundary(q, p) ==
    LET before == p > 1 /\ IsWordChar(q[p - 1])
        after  == p <= Len(q) /\ IsWordChar(q[p])
    IN  before # after

\* the same search without re.IGNORECASE
SearchKeywordCaseSensitive(kw, q) ==
    \E i \in 1..(Len(q) - Len(kw) + 1) :
        /\ \A k \in 1..Len(kw) : q[i + k - 1] = kw[k]
        /\ WordBoundary(q, i)
        /\ WordBoundary(q, i + Len(kw))

\* re.search(r"\bKW\b", q, re.IGNORECASE)
SearchKeyword(kw, q) ==
    \E i \in 1..(Len(q) - Len(kw) + 1) :
        /\ \A k \in 1..Len(kw) : ToUpper(q[i + k - 1]) = kw[k]
        /\ WordBoundary(q, i)
        /\ WordBoundary(q, i + Len(kw))

\* the keywords of unsafe_patterns, in the order of the list
Keywords ==
    << <<"U", "N", "I", "O", "N">>,
       <<"I", "N", "T", "O">>,
       <<"D", "R", "O", "P">>,
       <<"D", "E", "L", "E", "T", "E">>,
       <<"U", "P", "D", "A", "T", "E">>,
       <<"I", "N", "S", "E", "R", "T">>,
       <<"A", "L", "T", "E", "R">>,
       <<"C", "R", "E", "A", "T", "E">>,
       <<"T", "R", "U", "N", "C", "A", "T", "E">> >>

\* the loop with the keyword patterns left out of the list
SearchUnsafeNoKeywords(q) ==
    \/ SearchChained(q)
    \/ SearchLiteral(<<"-", "-">>, q)
    \/ SearchLiteral(<<"/", "*">>, q)

\* the loop over unsafe_patterns: some pattern matches
SearchUnsafe(q) ==
    \/ SearchChained(q)
    \/ SearchLiteral(<<"-", "-">>, q)
    \/ SearchLiteral(<<"/", "*">>, q)
    \/ \E n \in 1..Len(Keywords) : SearchKeyword(Keywords[n], q)

\* True (SAFE) when the text is non-empty and no pattern matches
_validate_query(query) ==
    IF query = <<>> THEN FALSE
    ELSE ~SearchUnsafe(query)

-----------------------------------------------------------------------------
(* The database that database_creation.py builds, and sqlite3 on top of it *)

INTEGER == <<"I", "N", "T", "E", "G", "E", "R">>

TEXT == <<"T", "E", "X", "T">>

\* PRAGMA table_info rows: <<cid, name, type, notnull, dflt_value, pk>>
DepartmentsColumns ==
    << <<0, "ID", INTEGER, 0, "None", 1>>,
       <<1, "Name", TEXT, 1, "None", 0>>,
       <<2, "Manager", TEXT, 1, "None", 0>> >>

EmployeesColumns ==
    << <<0, "ID", INTEGER, 0, "None", 1>>,
       <<1, "Name", TEXT, 1, "None", 0>>,
       <<2, "Department_ID", INTEGER, 1, "None", 0>>,
       <<3, "Salary", INTEGER, 1, "None", 0>>,
       <<4, "Hire_Date", TEXT, 1, "None", 0>> >>

\* PRAGMA foreign_key_list rows: <<id, seq, table, from, to, on_update, on_delete, match>>
EmployeesForeignKeys ==
    << <<0, 0, "Departments", "Department_ID", "ID", "NO ACTION", "CASCADE", "NONE">> >>

NoTable == [exists |-> FALSE, columns |-> <<>>, foreign_keys |-> <<>>, rows |-> <<>>]

\* the i-th row the bootstrap inserts into Departments
DepartmentRow(i) == <<i, IF i = 1 THEN "Engineering" ELSE "Marketing", "manager">>

\* the i-th row the bootstrap inserts into Employees (its department is found by name)
EmployeeRow(i) == <<i, IF i = 1 THEN "Asha" ELSE "Ben", 1, 100, "2020-01-01">>

\* database.db after the bootstrap loaded nD departments and nE employees
CreatedDatabase(nD, nE) ==
    [Departments |-> [exists |-> TRUE, columns |-> DepartmentsColumns,
                      foreign_keys |-> <<>>,
                      rows |-> [i \in 1..nD |-> DepartmentRow(i)]],
     Employees   |-> [exists |-> TRUE, columns |-> EmployeesColumns,
                      foreign_keys |-> EmployeesForeignKeys,
                      rows |-> [i \in 1..nE |-> EmployeeRow(i)]]]

\* database.db as sqlite3.connect creates it when the bootstrap never ran
EmptyDatabase == [Departments |-> NoTable, Employees |-> NoTable]

\* the part of a database that the PRAGMA metadata queries read
Schema(db) ==
    [t \in {"Employees", "Departments"} |->
        [exists |-> db[t].exists, columns |-> db[t].columns,
         foreign_keys |-> db[t].foreign_keys]]

\* the statements whose effect on the database is modelled
SelectDeptNames == <<"S", "E", "L", "E", "C", "T", " ", "N", "a", "m", "e", " ", "F", "R", "O", "M", " ", "D", "e", "p", "a", "r", "t", "m", "e", "n", "t", "s">>

SelectEmpNames == <<"S", "E", "L", "E", "C", "T", " ", "N", "a", "m", "e", " ", "F", "R", "O", "M", " ", "E", "m", "p", "l", "o", "y", "e", "e", "s">>

SelectNope == <<"S", "E", "L", "E", "C", "T", " ", "N", "o", "p", "e", " ", "F", "R", "O", "M", " ", "E", "m", "p", "l", "o", "y", "e", "e", "s">>

DropEmployees == <<"D", "R", "O", "P", " ", "T", "A", "B", "L", "E", " ", "E", "m", "p", "l", "o", "y", "e", "e", "s">>

DeleteEmployees == <<"D", "E", "L", "E", "T", "E", " ", "F", "R", "O", "M", " ", "E", "m", "p", "l", "o", "y", "e", "e", "s">>

SelectThenDrop == <<"S", "E", "L", "E", "C", "T", " ", "*", " ", "F", "R", "O", "M", " ", "E", "m", "p", "l", "o", "y", "e", "e", "s", ";", " ", "D", "R", "O", "P", " ", "T", "A", "B", "L", "E", " ", "E", "m", "p", "l", "o", "y", "e", "e", "s">>

\* a response wrapped in a fenced sql block ("BACKTICK" stands for the grave accent)
FencedSelect == <<"BACKTICK", "BACKTICK", "BACKTICK", "s", "q", "l", "\n", "S", "E", "L", "E", "C", "T", " ", "N", "a", "m", "e", " ", "F", "R", "O", "M", " ", "D", "e", "p", "a", "r", "t", "m", "e", "n", "t", "s", "\n", "BACKTICK", "BACKTICK", "BACKTICK">>

\* a response with surrounding whitespace and a closing separator
PaddedSelect == <<" ", "S", "E", "L", "E", "C", "T", " ", "N", "a", "m", "e", " ", "F", "R", "O", "M", " ", "D", "e", "p", "a", "r", "t", "m", "e", "n", "t", "s", ";", "\n">>

\* a response of whitespace only
BlankText == <<" ", " ", "\n">>

FenceOpen == <<"BACKTICK", "BACKTICK", "BACKTICK", "s", "q", "l">>

FenceOpenLine == <<"BACKTICK", "BACKTICK", "BACKTICK", "s", "q", "l", "\n">>

FenceCloseLine == <<"\n", "BACKTICK", "BACKTICK", "BACKTICK">>

\* the first statement of SelectThenDrop
SelectAllEmployees == <<"S", "E", "L", "E", "C", "T", " ", "*", " ", "F", "R", "O", "M", " ", "E", "m", "p", "l", "o", "y", "e", "e", "s">>

-----------------------------------------------------------------------------
(* _generate_sql_query: the language model's response and what is kept of it *)

\* the language model answered with text, or the call raised
Response(text) == [ok |-> TRUE, text |-> text]

Unreachable == [ok |-> FALSE, text |-> <<>>]

\* re.search(r"```sql\n(.*?)\n```", g, re.DOTALL): leftmost opening line, then the
\* nearest closing line
FenceMatches(g) ==
    {m \in (1..Len(g)) \X (1..Len(g)) :
        /\ StartsAt(g, m[1], FenceOpenLine)
        /\ m[2] >= m[1] + Len(FenceOpenLine)
        /\ StartsAt(g, m[2], FenceCloseLine)}

FencedBody(g) ==
    LET m == CHOOSE m \in FenceMatches(g) :
                 \A n \in FenceMatches(g) :
                     m[1] < n[1] \/ (m[1] = n[1] /\ m[2] <= n[2])
    IN  SubSeq(g, m[1] + Len(FenceOpenLine), m[2] - 1)

\* lines 91-98: strip, then the body of a fenced sql block when there is one
ExtractSql(text) ==
    LET g == Strip(text)
    IN  IF Contains(g, FenceOpen) /\ FenceMatches(g) # {}
        THEN Strip(FencedBody(g))
        ELSE g

-----------------------------------------------------------------------------
(* Inputs *)

\* blocklisted keywords as the language model may spell them
KeywordTokens ==
    { <<"D", "R", "O", "P">>,
      <<"d", "r", "o", "p">>,
      <<"U", "n", "i", "o", "n">>,
      <<"i", "n", "t", "o">>,
      <<"D", "e", "L", "e", "T", "e">>,
      <<"U", "P", "D", "A", "T", "E">>,
      <<"i", "n", "s", "e", "r", "t">>,
      <<"A", "l", "t", "e", "r">>,
      <<"C", "R", "E", "A", "T", "E">>,
      <<"t", "r", "u", "n", "c", "a", "t", "e">> }

\* other tokens made of word characters only
OtherWordTokens == { <<"S", "E", "L", "E", "C", "T">>, <<"_">> }

WordTokens == KeywordTokens \cup OtherWordTokens

SpaceTokens == { <<" ">>, <<"\n">> }

PunctuationTokens == { <<";">>, <<"-">>, <<"/">>, <<"*">> }

Tokens == WordTokens \cup SpaceTokens \cup PunctuationTokens

\* the candidate statements given to the validator
Candidates == UNION {[1..n -> Tokens] : n \in 0..MaxToks}

\* what the language model may answer to a prompt
LLMOutcomes ==
    { Response(SelectDeptNames), Response(SelectEmpNames), Response(SelectNope),
      Response(SelectThenDrop), Response(DropEmployees), Response(DeleteEmployees),
      Response(FencedSelect), Response(PaddedSelect), Response(<<>>),
      Response(BlankText), Unreachable }

\* database.db when the session starts
InitialDatabases ==
    {EmptyDatabase} \cup
    {CreatedDatabase(nD, nE) : <<nD, nE>> \in
        {r \in (0..MaxRows) \X (0..MaxRows) : r[2] > 0 => r[1] > 0}}

\* the statement _generate_sql_query returns for each answer, computed once
Extracted == [o \in {x \in LLMOutcomes : x.ok} |-> ExtractSql(o.text)]

GeneratedStatements == {Extracted[o] : o \in DOMAIN Extracted}

\* _validate_query on each of them, computed once
Validated == [sql \in GeneratedStatements |-> _validate_query(sql)]

\* self.llm(prompt) answered with llm.text: lines 91-98
_generate_sql_query(llm) == Extracted[llm]

-----------------------------------------------------------------------------
(* cursor.execute: what the sqlite3 module does with one statement text *)

\* exceptions are records of the class raised and its message
Raise(cls, msg) == [cls |-> cls, msg |-> msg]

NoException == Raise("", "")

\* the classes derived from sqlite3.Error
SqliteErrorClasses == {"sqlite3.OperationalError", "sqlite3.ProgrammingError"}

\* the classes derived from Exception (all of the above, and the rest raised here)
ExceptionClasses ==
    SqliteErrorClasses \cup {"sqlite3.Warning", "TypeError", "ConnectionError"}

\* cursor.description: None, or the column names
NoDescription == [is_none |-> TRUE, columns |-> <<>>]

Description(columns) == [is_none |-> FALSE, columns |-> columns]

\* the text up to the first ";" and the text after it
FirstSeparator(sql) ==
    CHOOSE i \in 1..Len(sql) : sql[i] = ";" /\ \A k \in 1..(i-1) : sql[k] # ";"

FirstStatement(sql) ==
    IF Contains(sql, <<";">>) THEN SubSeq(sql, 1, FirstSeparator(sql) - 1) ELSE sql

StatementTail(sql) ==
    IF Contains(sql, <<";">>) THEN SubSeq(sql, FirstSeparator(sql) + 1, Len(sql)) ELSE <<>>

\* SQL keywords and identifiers compare without regard to case
SameStatement(s, t) == Upper(Strip(s)) = Upper(t)

\* a connection: the committed file, this connection's view, the open transaction
Connection(c, v, t) == [committed |-> c, view |-> v, in_transaction |-> t]

\* the outcome of one execute call
Outcome(exc, desc, rows, D) ==
    [exc |-> exc, description |-> desc, rows |-> rows, db |-> D]

Failed(cls, msg, D) == Outcome(Raise(cls, msg), NoDescription, <<>>, D)

\* a table's Name column, row by row
NameColumn(table) == [i \in 1..Len(table.rows) |-> <<table.rows[i][2]>>]

\* DDL outside a transaction is committed at once; inside one it stays pending
AfterDDL(D, v) ==
    Connection(IF D.in_transaction THEN D.committed ELSE v, v, D.in_transaction)

\* the module opens a transaction before DML and leaves it open
AfterDML(D, v) == Connection(D.committed, v, TRUE)

\* which of the modelled statements sqlite3 prepares from the text, and whether
\* text is left after it
Prepare(sql) ==
    LET first == FirstStatement(sql)
    IN  [kind |-> IF Strip(first) = <<>> THEN "empty"
                  ELSE IF SameStatement(first, SelectDeptNames) THEN "select departments"
                  ELSE IF SameStatement(first, SelectEmpNames) THEN "select employees"
                  ELSE IF SameStatement(first, SelectAllEmployees) THEN "select all employees"
                  ELSE IF SameStatement(first, SelectNope) THEN "select nope"
                  ELSE IF SameStatement(first, DropEmployees) THEN "drop employees"
                  ELSE IF SameStatement(first, DeleteEmployees) THEN "delete employees"
                  ELSE "syntax error",
         more |-> Strip(StatementTail(sql)) # <<>>]

\* Prepare on each generated statement, computed once
Prepared == [sql \in GeneratedStatements |-> Prepare(sql)]

\* cursor.execute(sql) on an open connection; legacy: the sqlite3 module that
\* raises sqlite3.Warning, not ProgrammingError, for a second statement
Execute(sql, D, legacy) ==
    LET kind  == Prepared[sql].kind
        more  == Prepared[sql].more
        emp   == D.view.Employees
        dep   == D.view.Departments
        multi == Failed(IF legacy THEN "sqlite3.Warning" ELSE "sqlite3.ProgrammingError",
                        "You can only execute one statement at a time.", D)
        missing(t) == Failed("sqlite3.OperationalError", "no such table: " \o t, D)
    IN  IF kind = "empty" THEN
            IF more THEN multi ELSE Outcome(NoException, NoDescription, <<>>, D)
        ELSE IF kind = "select departments" THEN
            IF ~dep.exists THEN missing("Departments")
            ELSE IF more THEN multi
            ELSE Outcome(NoException, Description(<<"Name">>), NameColumn(dep), D)
        ELSE IF kind = "select employees" THEN
            IF ~emp.exists THEN missing("Employees")
            ELSE IF more THEN multi
            ELSE Outcome(NoException, Description(<<"Name">>), NameColumn(emp), D)
        ELSE IF kind = "select all employees" THEN
            IF ~emp.exists THEN missing("Employees")
            ELSE IF more THEN multi
            ELSE Outcome(NoException,
                         Description([i \in 1..Len(emp.columns) |-> emp.columns[i][2]]),
                         emp.rows, D)
        ELSE IF kind = "select nope" THEN
            IF ~emp.exists THEN missing("Employees")
            ELSE Failed("sqlite3.OperationalError", "no such column: Nope", D)
        ELSE IF kind = "drop employees" THEN
            IF ~emp.exists THEN missing("Employees")
            ELSE IF more THEN multi
            ELSE Outcome(NoException, NoDescription, <<>>,
                         AfterDDL(D, [D.view EXCEPT !.Employees = NoTable]))
        ELSE IF kind = "delete employees" THEN
            IF ~emp.exists THEN missing("Employees")
            ELSE IF more THEN multi
            ELSE Outcome(NoException, NoDescription, <<>>,
                         AfterDML(D, [D.view EXCEPT !.Employees.rows = <<>>]))
        ELSE Failed("sqlite3.OperationalError", "syntax error", D)

\* sqlite3.connect(db_path): a new connection; what the replaced one left
\* uncommitted is rolled back
Connect(D) == Connection(D.committed, D.committed, FALSE)

-----------------------------------------------------------------------------
(* LocalDatabaseAssistant *)

NoSchemaInfo ==
    [order |-> <<>>, columns |-> [t \in {"Employees", "Departments"} |-> <<>>]]

NoRelationships ==
    [order |-> <<>>, edges |-> [t \in {"Employees", "Departments"} |-> <<>>]]

\* conn is "none" (None), "open" or "closed"
NoAssistant ==
    [exists |-> FALSE, conn |-> "none",
     schema_info |-> NoSchemaInfo, relationships |-> NoRelationships]

\* __init__
NewAssistant == [NoAssistant EXCEPT !.exists = TRUE]

\* dict assignment d[key] = ...: a new key goes last, an old key keeps its place
WithKey(order, key) ==
    IF \E i \in 1..Len(order) : order[i] = key THEN order ELSE Append(order, key)

\* the inner loop over foreign_keys: the last match wins; <<>> is None
ForeignKeyOf(name, foreign_keys) ==
    LET hits == {k \in 1..Len(foreign_keys) : foreign_keys[k][4] = name}
    IN  IF hits = {} THEN <<>>
        ELSE LET k == CHOOSE k \in hits : \A h \in hits : h <= k
             IN  <<foreign_keys[k][3] \o "." \o foreign_keys[k][5]>>

ColumnInfo(col, foreign_keys) ==
    [name        |-> col[2],
     data_type   |-> Upper(col[3]),
     is_nullable |-> col[4] = 0,
     is_primary  |-> col[6] # 0,
     foreign_key |-> ForeignKeyOf(col[2], foreign_keys)]

\* the list built for one table when the old list is kept and appended to
AnalyzeTableAppending(old, columns, foreign_keys) ==
    old \o [i \in 1..Len(columns) |-> ColumnInfo(columns[i], foreign_keys)]

\* the list built for one table: self.schema_info[table] = [] and the appends
AnalyzeTable(old, columns, foreign_keys) ==
    [i \in 1..Len(columns) |-> ColumnInfo(columns[i], foreign_keys)]

\* one round of the loop of _analyze_schema
AnalyzeStep(info, table, db) ==
    [order   |-> WithKey(info.order, table),
     columns |-> [info.columns EXCEPT
                    ![table] = AnalyzeTable(@, db[table].columns, db[table].foreign_keys)]]

\* for table in ['Employees', 'Departments']
_analyze_schema(info, db) ==
    AnalyzeStep(AnalyzeStep(info, "Employees", db), "Departments", db)

RelationshipEdges(table, foreign_keys) ==
    [k \in 1..Len(foreign_keys) |->
        [from_table  |-> table,
         to_table    |-> foreign_keys[k][3],
         from_column |-> foreign_keys[k][4],
         to_column   |-> foreign_keys[k][5]]]

RECURSIVE DetectLoop(_, _, _)
DetectLoop(rel, tables, db) ==
    IF tables = <<>> THEN rel
    ELSE LET t == Head(tables)
         IN  DetectLoop([order |-> WithKey(rel.order, t),
                         edges |-> [rel.edges EXCEPT
                                      ![t] = RelationshipEdges(t, db[t].foreign_keys)]],
                        Tail(tables), db)

\* for table in self.schema_info.keys()
_detect_relationships(rel, info, db) == DetectLoop(rel, info.order, db)

\* initialize_database: connect, _analyze_schema, _detect_relationships
initialize_database(a, D) ==
    LET info == _analyze_schema(a.schema_info, Connect(D).view)
    IN  [a EXCEPT !.conn = "open",
                  !.schema_info = info,
                  !.relationships =
                      _detect_relationships(a.relationships, info, Connect(D).view)]

-----------------------------------------------------------------------------
(* process_query *)

NoResults == [is_none |-> TRUE, columns |-> <<>>, rows |-> <<>>]

\* pd.DataFrame(rows, columns=columns)
DataFrame(rows, columns) == [is_none |-> FALSE, columns |-> columns, rows |-> rows]

\* the returned dict: its keys, and the value under each key it has
ErrorResult(message) ==
    [keys |-> {"error"}, sql_query |-> <<>>, warning |-> "",
     results |-> NoResults, error |-> message]

WarningText ==
    "The generated SQL query contains potentially unsafe code. Do you really wish to proceed?"

\* a warning dict that also carries the results key
WarningResultWithResults(sql) ==
    [keys |-> {"sql_query", "warning", "results"}, sql_query |-> sql,
     warning |-> WarningText, results |-> NoResults, error |-> ""]

\* lines 158-161
WarningResult(sql) ==
    [keys |-> {"sql_query", "warning"}, sql_query |-> sql, warning |-> WarningText,
     results |-> NoResults, error |-> ""]

\* lines 166-173
RowsResult(sql, columns, rows) ==
    [keys |-> {"sql_query", "results"}, sql_query |-> sql, warning |-> "",
     results |-> IF rows = <<>> THEN NoResults ELSE DataFrame(rows, columns),
     error |-> ""]

\* the test of line 159, inverted on force_execute
ShouldWarnWhenForced(unsafe, force_execute) == unsafe /\ force_execute

\* line 159
ShouldWarn(unsafe, force_execute) == unsafe /\ ~force_execute

\* no dict at all: the exception left process_query
NothingReturned ==
    [keys |-> {}, sql_query |-> <<>>, warning |-> "", results |-> NoResults, error |-> ""]

\* handlers that catch sqlite3.Error only
CatchSqliteOnly(exc) ==
    IF exc.cls \in SqliteErrorClasses
    THEN [caught |-> TRUE, result |-> ErrorResult("Database error: " \o exc.msg)]
    ELSE [caught |-> FALSE, result |-> NothingReturned]

\* lines 174-179: except sqlite3.Error, then except Exception
Catch(exc) ==
    IF exc.cls \in SqliteErrorClasses
    THEN [caught |-> TRUE, result |-> ErrorResult("Database error: " \o exc.msg)]
    ELSE IF exc.cls \in ExceptionClasses
    THEN [caught |-> TRUE, result |-> ErrorResult("Error processing query: " \o exc.msg)]
    ELSE [caught |-> FALSE, result |-> NothingReturned]

\* the record kept of one invocation
Invocation(a, D, llm, force, called, sql, cl, executed, cursor, exc, after, result) ==
    [conn |-> a.conn, force_execute |-> force,
     llm |-> llm, llm_called |-> called,
     generated |-> sql, classified |-> cl,
     cursor_used |-> cursor, executed |-> executed,
     raised |-> exc.cls, escaped |-> exc.cls # "" /\ ~Catch(exc).caught,
     before |-> D.view, after |-> after.view,
     result |-> IF exc.cls = "" THEN result ELSE Catch(exc).result]

\* lines 166-167 on what execute left: iterating a description of None raises
AfterExecute(out) ==
    IF out.exc.cls # "" THEN out.exc
    ELSE IF out.description.is_none
    THEN Raise("TypeError", "'NoneType' object is not iterable")
    ELSE NoException

\* lines 166-173 and the handlers, given the outcome of cursor.execute(sql_query)
Finish(a, D, llm, force, sql, cl, out) ==
    [call |-> Invocation(a, D, llm, force, TRUE, <<sql>>, cl, <<sql>>, TRUE,
                         AfterExecute(out), out.db,
                         RowsResult(sql, out.description.columns, out.rows)),
     db |-> out.db]

\* lines 162-173, with the connection open (the PRAGMA of line 164 names no pragma
\* sqlite knows and changes nothing)
RunStatement(a, D, llm, force, sql, cl, legacy) ==
    Finish(a, D, llm, force, sql, cl, Execute(sql, D, legacy))

\* process_query(user_query, force_execute): the invocation record and the
\* connection afterwards
process_query(a, D, llm, force, legacy) ==
    IF a.conn = "none" THEN
        [call |-> Invocation(a, D, llm, force, FALSE, <<>>, "none", <<>>, FALSE,
                             NoException, D,
                             ErrorResult("Please initialize the database first.")),
         db |-> D]
    ELSE IF ~llm.ok THEN
        [call |-> Invocation(a, D, llm, force, TRUE, <<>>, "none", <<>>, FALSE,
                             Raise("ConnectionError", "connection refused"), D,
                             ErrorResult("")),
         db |-> D]
    ELSE
        LET sql    == _generate_sql_query(llm)
            unsafe == ~Validated[sql]
            class  == IF unsafe THEN "UNSAFE" ELSE "SAFE"
        IN  IF ShouldWarn(unsafe, force) THEN
                [call |-> Invocation(a, D, llm, force, TRUE, <<sql>>, class, <<>>, FALSE,
                                     NoException, D, WarningResult(sql)),
                 db |-> D]
            ELSE IF a.conn = "closed" THEN
                [call |-> Invocation(a, D, llm, force, TRUE, <<sql>>, class, <<>>, TRUE,
                                     Raise("sqlite3.ProgrammingError",
                                           "Cannot operate on a closed database."),
                                     D, ErrorResult("")),
                 db |-> D]
            ELSE RunStatement(a, D, llm, force, sql, class, legacy)

-----------------------------------------------------------------------------
(* The pipeline: the class used directly, and the two Streamlit handlers *)

D == Connection(committed, view, in_transaction)

SetConnection(Dn) ==
    /\ committed' = Dn.committed
    /\ view' = Dn.view
    /\ in_transaction' = Dn.in_transaction

\* a rendered widget and its text
Widget(kind, text) == [widget |-> kind, text |-> text]

Init ==
    /\ committed \in InitialDatabases
    /\ view = committed
    /\ in_transaction = FALSE
    /\ legacy_sqlite3 \in BOOLEAN
    /\ assistant = NoAssistant
    /\ is_initialized = FALSE
    /\ snap_schema = Schema(committed)
    /\ prev_schema = Schema(committed)
    /\ prev_info = NoSchemaInfo
    /\ calls = <<>>
    /\ shown = {}
    /\ cand = <<>>
    /\ verdict = "none"

\* a new snapshot replaces the one held; the one replaced is remembered
Introspected(a) ==
    /\ assistant' = initialize_database(a, D)
    /\ SetConnection(Connect(D))
    /\ prev_info' = assistant.schema_info
    /\ prev_schema' = snap_schema
    /\ snap_schema' = Schema(Connect(D).view)

\* LocalDatabaseAssistant(...) outside a Streamlit session
Construct ==
    /\ ~assistant.exists
    /\ ~is_initialized
    /\ assistant' = NewAssistant
    /\ calls' = <<>>
    /\ shown' = {}
    /\ UNCHANGED <<committed, view, in_transaction, legacy_sqlite3, is_initialized,
                   snap_schema, prev_schema, prev_info, cand, verdict>>

\* assistant.initialize_database(), also when run again on the same object
InitializeDatabase ==
    /\ assistant.exists
    /\ Introspected(assistant)
    /\ calls' = <<>>
    /\ shown' = {}
    /\ UNCHANGED <<legacy_sqlite3, is_initialized, cand, verdict>>

\* assistant.close() outside a Streamlit session
Close ==
    /\ assistant.exists
    /\ ~is_initialized
    /\ assistant.conn = "open"
    /\ assistant' = [assistant EXCEPT !.conn = "closed"]
    /\ SetConnection(Connect(D))
    /\ calls' = <<>>
    /\ shown' = {}
    /\ UNCHANGED <<legacy_sqlite3, is_initialized, snap_schema, prev_schema, prev_info,
                   cand, verdict>>

\* assistant.process_query(user_query, force_execute) called directly
ProcessQuery ==
    /\ assistant.exists
    /\ \E llm \in LLMOutcomes, force \in BOOLEAN :
          \E r \in {process_query(assistant, D, llm, force, legacy_sqlite3)} :
              /\ calls' = <<r.call>>
              /\ SetConnection(r.db)
    /\ shown' = {}
    /\ UNCHANGED <<legacy_sqlite3, assistant, is_initialized, snap_schema, prev_schema,
                   prev_info, cand, verdict>>

\* the "Initialize Database" button, lines 199-207
InitializeButton ==
    /\ \E llm_ok \in BOOLEAN :
          IF llm_ok
          THEN /\ Introspected(NewAssistant)
               /\ is_initialized' = TRUE
               /\ shown' = {Widget("success", "Database initialized successfully!")}
          ELSE /\ shown' = {Widget("error", "Error initializing database: connection refused")}
               /\ UNCHANGED <<committed, view, in_transaction, assistant, is_initialized,
                              snap_schema, prev_schema, prev_info>>
    /\ calls' = <<>>
    /\ UNCHANGED <<legacy_sqlite3, cand, verdict>>

\* st.code(sql_query, language="sql") in the "View Generated SQL" expander
Code == {Widget("code", "View Generated SQL")}

\* result.get("results") is None
ResultsIsNone(result) == "results" \notin result.keys \/ result.results.is_none

\* lines 247-253
Display(result) ==
    IF ResultsIsNone(result) THEN {Widget("info", "No results found.")}
    ELSE IF "error" \in result.keys THEN {Widget("error", result.error)}
    ELSE {Widget("dataframe", "Query Results")}

\* the "Run Query" button, lines 228-257; entered: the text area holds text;
\* proceed: what st.checkbox returned in this run of the script
RunQuery ==
    /\ is_initialized
    /\ \E entered \in BOOLEAN :
          IF ~entered
          THEN /\ calls' = <<>>
               /\ shown' = {Widget("warning", "Please enter a query.")}
               /\ UNCHANGED <<committed, view, in_transaction>>
          ELSE \E llm1 \in LLMOutcomes :
                  \E r1 \in {process_query(assistant, D, llm1, FALSE, legacy_sqlite3)} :
                      IF r1.call.escaped
                      THEN /\ calls' = <<r1.call>>
                           /\ shown' = {Widget("error", "Error processing query")}
                           /\ SetConnection(r1.db)
                      ELSE IF "warning" \notin r1.call.result.keys
                      THEN /\ calls' = <<r1.call>>
                           /\ shown' = Code \cup Display(r1.call.result)
                           /\ SetConnection(r1.db)
                      ELSE \E proceed \in BOOLEAN :
                              IF ~proceed
                              THEN /\ calls' = <<r1.call>>
                                   /\ shown' = Code
                                        \cup {Widget("warning", r1.call.result.warning),
                                              Widget("info", "Query execution aborted by user.")}
                                        \cup Display(r1.call.result)
                                   /\ SetConnection(r1.db)
                              ELSE \E llm2 \in LLMOutcomes :
                                      \E r2 \in {process_query(assistant, r1.db, llm2,
                                                              TRUE, legacy_sqlite3)} :
                                          /\ calls' = <<r1.call, r2.call>>
                                          /\ shown' =
                                               IF r2.call.escaped
                                               THEN Code
                                                    \cup {Widget("warning", r1.call.result.warning),
                                                          Widget("error", "Error processing query")}
                                               ELSE Code
                                                    \cup {Widget("warning", r1.call.result.warning)}
                                                    \cup Display(r2.call.result)
                                          /\ SetConnection(r2.db)
    /\ UNCHANGED <<legacy_sqlite3, assistant, is_initialized, snap_schema, prev_schema,
                   prev_info, cand, verdict>>

Next ==
    \/ Construct
    \/ InitializeDatabase
    \/ Close
    \/ ProcessQuery
    \/ InitializeButton
    \/ RunQuery

Spec == Init /\ [][Next]_vars

-----------------------------------------------------------------------------
(* The validator on its own: every candidate statement up to MaxToks tokens *)

InitValidator ==
    /\ committed = EmptyDatabase
    /\ view = committed
    /\ in_transaction = FALSE
    /\ legacy_sqlite3 = FALSE
    /\ assistant = NoAssistant
    /\ is_initialized = FALSE
    /\ snap_schema = Schema(committed)
    /\ prev_schema = Schema(committed)
    /\ prev_info = NoSchemaInfo
    /\ calls = <<>>
    /\ shown = {}
    /\ cand \in Candidates
    /\ verdict = "none"

\* self._validate_query(query) on the candidate's text
Validate ==
    /\ verdict = "none"
    /\ verdict' = IF _validate_query(Flatten(cand)) THEN "SAFE" ELSE "UNSAFE"
    /\ UNCHANGED <<pipeVars, cand>>

NextValidator == Validate

SpecValidator == InitValidator /\ [][NextValidator]_vars

-----------------------------------------------------------------------------
(* Properties of process_query *)

\* some blocklisted keyword stands in the text as a whole word, in any letter case
HasWriteKeyword(sql) == \E n \in 1..Len(Keywords) : SearchKeyword(Keywords[n], sql)

\* the language model answered, and its answer is empty once trimmed
AnsweredBlank(c) == c.llm_called /\ c.llm.ok /\ Strip(c.llm.text) = <<>>

\* C1: on an initialized assistant, a generated statement classified UNSAFE is not
\* passed to the database when force_execute is false, and one classified SAFE is
\* always passed to it, whatever force_execute is.
C1_GateFollowsClassification ==
    \A i \in 1..Len(calls) :
        (calls[i].conn = "open" /\ calls[i].generated # <<>>) =>
            /\ (calls[i].classified = "UNSAFE" /\ ~calls[i].force_execute)
                  => calls[i].executed = <<>>
            /\ calls[i].classified = "SAFE"
                  => calls[i].executed = calls[i].generated

\* the chained statement was generated for an unforced run on an open connection
\* and was held back; the database is as it was
C1_Witness ==
    \E i \in 1..Len(calls) :
        /\ calls[i].conn = "open"
        /\ calls[i].generated = <<SelectThenDrop>>
        /\ calls[i].classified = "UNSAFE" /\ ~calls[i].force_execute
        /\ calls[i].executed = <<>>
        /\ calls[i].after = calls[i].before
        /\ calls[i].before.Employees.exists

\* C2, as stated: under no value of force_execute does a statement containing DROP,
\* DELETE, UPDATE, INSERT, ALTER, CREATE or TRUNCATE reach the database's execute call.
C2_NoWriteStatementExecuted ==
    \A i \in 1..Len(calls) :
        \A k \in 1..Len(calls[i].executed) : ~HasWriteKeyword(calls[i].executed[k])

\* C2, amended: with force_execute false, no statement containing one of the
\* blocklisted keywords as a whole word reaches the database's execute call.
C2_NoWriteStatementExecutedUnforced ==
    \A i \in 1..Len(calls) :
        ~calls[i].force_execute =>
            \A k \in 1..Len(calls[i].executed) : ~HasWriteKeyword(calls[i].executed[k])

\* a write statement was generated for an unforced run on an open connection and
\* was not executed
C2_Witness ==
    \E i \in 1..Len(calls) :
        /\ calls[i].conn = "open" /\ ~calls[i].force_execute
        /\ calls[i].generated = <<DropEmployees>>
        /\ calls[i].executed = <<>>
        /\ calls[i].after.Employees.exists

C4_ErrorLeavesDatabaseUnchanged ==
    \A i \in 1..Len(calls) :
        "error" \in calls[i].result.keys => calls[i].after = calls[i].before

\* C5: when the language model returns text that is empty once trimmed, the run
\* ends in an error for both values of force_execute: no warning is returned and
\* the empty statement is not passed to the database.
C5_BlankAnswerIsAnError ==
    \A i \in 1..Len(calls) :
        AnsweredBlank(calls[i]) =>
            /\ "error" \in calls[i].result.keys
            /\ "warning" \notin calls[i].result.keys
            /\ calls[i].executed = <<>>

\* C6: no failure leaves process_query as an uncaught exception: without a
\* connection, when the language model call fails, when the database rejects the
\* statement and when the statement leaves no column description, an error dict is
\* returned; without a connection neither the language model nor the database is
\* called.
C6_FailuresAreReturned ==
    \A i \in 1..Len(calls) :
        /\ ~calls[i].escaped
        /\ calls[i].conn = "none" =>
              /\ calls[i].result.keys = {"error"}
              /\ ~calls[i].llm_called
              /\ ~calls[i].cursor_used
              /\ calls[i].executed = <<>>
        /\ (calls[i].llm_called /\ ~calls[i].llm.ok) => calls[i].result.keys = {"error"}
        /\ calls[i].raised # "" =>
              /\ calls[i].result.keys = {"error"}
              /\ calls[i].result.error # ""

\* a forced statement ran, left no column description, and an error dict came back
C6_Witness ==
    \E i \in 1..Len(calls) :
        /\ calls[i].raised = "TypeError"
        /\ calls[i].executed # <<>>
        /\ calls[i].result.keys = {"error"}

-----------------------------------------------------------------------------
(* Properties of _validate_query *)

\* a ";" token, whitespace tokens, then a token of word characters
HasChainedStatement(c) ==
    \E i \in 1..Len(c), j \in 1..Len(c) :
        /\ i < j
        /\ c[i] = <<";">>
        /\ c[j] \in WordTokens
        /\ \A k \in (i+1)..(j-1) : c[k] \in SpaceTokens

\* "-" next to "-", or "/" next to "*"
HasCommentMarker(c) ==
    \E i \in 1..(Len(c) - 1) :
        \/ c[i] = <<"-">> /\ c[i+1] = <<"-">>
        \/ c[i] = <<"/">> /\ c[i+1] = <<"*">>

\* a keyword token with no token of word characters on either side
HasWholeKeyword(c) ==
    \E i \in 1..Len(c) :
        /\ c[i] \in KeywordTokens
        /\ i > 1 => c[i-1] \notin WordTokens
        /\ i < Len(c) => c[i+1] \notin WordTokens

\* C7: a candidate with a ";" followed, after optional whitespace, by a word
\* character, or with a "--" or "/*" marker, or with a blocklisted keyword as a whole
\* word in any letter case, is classified UNSAFE.
C7_UnsafePatternsAreRejected ==
    (verdict # "none" /\ (HasChainedStatement(cand) \/ HasCommentMarker(cand)
                            \/ HasWholeKeyword(cand)))
        => verdict = "UNSAFE"

\* a keyword not in upper case, standing alone between spaces, was rejected
C7_Witness ==
    /\ verdict = "UNSAFE"
    /\ Len(cand) = MaxToks
    /\ cand[1] \in SpaceTokens
    /\ cand[2] \in KeywordTokens /\ Upper(cand[2]) # cand[2]
    /\ \A k \in 3..Len(cand) : cand[k] \in SpaceTokens

-----------------------------------------------------------------------------
(* Properties of schema introspection and of the Run Query handler *)

\* C8: two introspections of an unchanged schema give the same tables, the same
\* columns in the same order and the same foreign-key annotations; the second adds
\* no duplicate column.
C8_IntrospectionIsRepeatable ==
    (prev_info.order # <<>> /\ prev_schema = snap_schema) =>
        /\ assistant.schema_info = prev_info
        /\ \A t \in {"Employees", "Departments"} :
              Len(assistant.schema_info.columns[t]) = Len(snap_schema[t].columns)

\* a second introspection of the bootstrap's schema, with its foreign key
C8_Witness ==
    /\ prev_info.order # <<>>
    /\ prev_schema = snap_schema
    /\ snap_schema["Employees"].exists
    /\ \E i \in 1..Len(assistant.schema_info.columns["Employees"]) :
          assistant.schema_info.columns["Employees"][i].foreign_key = <<"Departments.ID">>

\* C9: in the Run Query handler an error result is shown as an error, rows are shown
\* as a table, and "No results found." is shown only for the Empty result.
C9_OutcomesStayDistinguishable ==
    (Code \subseteq shown /\ calls # <<>> /\ ~calls[Len(calls)].escaped) =>
        /\ "error" \in calls[Len(calls)].result.keys
              => Widget("error", calls[Len(calls)].result.error) \in shown
        /\ Widget("info", "No results found.") \in shown
              => /\ "results" \in calls[Len(calls)].result.keys
                 /\ calls[Len(calls)].result.results.is_none
        /\ ("results" \in calls[Len(calls)].result.keys
              /\ ~calls[Len(calls)].result.results.is_none)
              => Widget("dataframe", "Query Results") \in shown

\* C10: when a request that ended in a warning is resubmitted with force_execute
\* true, the statement executed is the statement the warning carried: in the Run Query
\* handler's own second call, and when process_query is called again after a warning.
\* (The language model may answer the same prompt differently each time.)
C10_OverrideExecutesTheWarnedStatement ==
    [][ /\ Len(calls') = 2 =>
              \A k \in 1..Len(calls'[2].executed) :
                  calls'[2].executed[k] = calls'[1].result.sql_query
        /\ ( /\ calls # <<>>
             /\ "warning" \in calls[Len(calls)].result.keys
             /\ Len(calls') = 1
             /\ calls'[1].force_execute ) =>
              \A k \in 1..Len(calls'[1].executed) :
                  calls'[1].executed[k] = calls[Len(calls)].result.sql_query ]_vars

====
